---- MODULE Spec2Model ----
(***************************************************************************)
(* A model of bluetti_mqtt/mqtt_client.py: the MQTT bridge (MQTTClient).   *)
(*                                                                         *)
(* Time is held in microseconds, as datetime holds it; every clock reading *)
(* of the model is a multiple of Tick.  watt_seconds_total is a float in   *)
(* the code; the model holds it exactly, as an integer number of 1/WsScale *)
(* watt-seconds (all increments of the model are whole multiples of it).   *)
(* A published energy value, round(ws / 3600, 2), is held as an integer    *)
(* number of hundredths of a watt-hour.                                    *)
(***************************************************************************)
EXTENDS Integers, Sequences, FiniteSets, TLC

VARIABLES
    value_cache,        \* MQTTClient.value_cache: key -> last value handed to publish
    calculated_energy,  \* MQTTClient.calculated_energy: energy key -> EnergyEntry
    msgLoop,            \* the telemetry loop _handle_messages: "idle", "running", "mqtt_error", "crashed"
    calls,              \* the _update_value calls of the last _handle_message, in order
    lastPub,            \* history: key -> last value handed to client.publish for that key
    lastOnTopic,        \* history: topic -> last value handed to client.publish on that topic
    lastSent,           \* history: key -> last value of that key whose client.publish returned
    seen,               \* history: the keys _update_value was ever called for
    trap,               \* history: energy key -> the trapezoidal sum of the samples fed for it
    last,               \* the last telemetry event handled and the clock reading it got
    nEvents,            \* number of telemetry events handled so far
    fed,                \* history: MQTTClient instance -> the events its _handle_message took, with their clock readings
    pc,                 \* where run() is: "connecting", "discovery", "running", "backoff", "terminated"
    error,              \* history: the exception that last left the try body of run(): "none", "mqtt", "other"
    failures,           \* history: consecutive failed cycles of run(), counted up to MaxFailures
    cmdLoop,            \* the command loop _handle_commands: "idle", "running", "mqtt_error", "crashed"
    message_queue,      \* self.message_queue: the events put and not yet got
    listeners,          \* how many times handle_message is registered on the bus
    stranded,           \* telemetry loops still waiting on a queue that was replaced
    handled,            \* history: event id -> how many times _handle_message ran for it
    lastCmd,            \* the last command message handled, with what _handle_command did
    busOut,             \* number of CommandMessages put on the bus
    nCmds               \* number of command messages handled so far

SECONDS_PER_HOUR == 3600
MICROSECONDS_PER_SECOND == 1000000

\* Bounds of the model.
MaxTicks == 1
MaxEvents == 3
MaxCmds == 2
MaxDelivered == 2
MaxQueue == 2
MaxListeners == 2
MaxFailures == 2
MaxFailAt == 1

\* The clock of the model ticks in quarter seconds, and the powers it feeds
\* are multiples of 100 W: every float the code computes from them is then
\* exact (a multiple of 1/8 Ws), and so is the model's integer arithmetic.
Tick == MICROSECONDS_PER_SECOND \div 4
WsScale == 2 * 4
TenSeconds == 10 * MICROSECONDS_PER_SECOND

\* The clock readings datetime.now() may return (wall clock: it may repeat
\* a reading and it may step back).
Times == {i * Tick : i \in 0..MaxTicks} \cup {TenSeconds}

\* EnergyEntry.last_value_ts is a class attribute: datetime.now() is taken
\* once, when the class body runs. It is the origin of the model's clock.
ClassDefinitionTime == 0

(***************************************************************************)
(* Devices, telemetry events, values                                       *)
(***************************************************************************)
DevA == [type |-> "AC300", sn |-> "500"]
DevB == [type |-> "EP500", sn |-> "12345"]
Devices == {DevA, DevB}

\* A value handed to client.publish: bytes (text), a float (num, in
\* hundredths) or the JSON text of pack details (num, list).
Bytes(text) == [kind |-> "bytes", text |-> text, num |-> 0, list |-> <<>>]
Float(hundredths) == [kind |-> "float", text |-> <<>>, num |-> hundredths, list |-> <<>>]
Json(percent, voltages) == [kind |-> "json", text |-> <<>>, num |-> percent, list |-> voltages]

DigitChar(d) ==
    CASE d = 0 -> "0" [] d = 1 -> "1" [] d = 2 -> "2" [] d = 3 -> "3" [] d = 4 -> "4"
      [] d = 5 -> "5" [] d = 6 -> "6" [] d = 7 -> "7" [] d = 8 -> "8" [] d = 9 -> "9"

\* str(n) of a non-negative int: its decimal digits.
RECURSIVE Str(_)
Str(n) == IF n < 10 THEN <<DigitChar(n)>> ELSE Append(Str(n \div 10), DigitChar(n % 10))

OnOff(b) == IF b THEN <<"O", "N">> ELSE <<"O", "F", "F">>

energy_counters ==
    << <<"ac_input_power", "ac_input_energy">>,
       <<"dc_input_power", "dc_input_energy">>,
       <<"ac_output_power", "ac_output_energy">>,
       <<"dc_output_power", "dc_output_energy">> >>

EnergyKeys == {energy_counters[i][2] : i \in 1..Len(energy_counters)}

\* message_parsers, in table order, each key with the kind of its lambda.
message_parsers ==
    << <<"ac_input_power", "str">>, <<"dc_input_power", "str">>,
       <<"ac_output_power", "str">>, <<"dc_output_power", "str">>,
       <<"total_battery_percent", "str">>,
       <<"ac_output_on", "onoff">>, <<"dc_output_on", "onoff">>,
       <<"ac_output_mode", "name">>,
       <<"internal_ac_voltage", "str">>, <<"internal_current_one", "str">>,
       <<"internal_power_one", "str">>, <<"internal_ac_frequency", "str">>,
       <<"internal_current_two", "str">>, <<"internal_power_two", "str">>,
       <<"ac_input_voltage", "str">>, <<"internal_current_three", "str">>,
       <<"internal_power_three", "str">>, <<"ac_input_frequency", "str">>,
       <<"internal_dc_input_voltage", "str">>, <<"internal_dc_input_power", "str">>,
       <<"internal_dc_input_current", "str">>,
       <<"ups_mode", "strname">>,
       <<"grid_charge_on", "onoff">>, <<"time_control_on", "onoff">>,
       <<"battery_range_start", "str">>, <<"battery_range_end", "str">>,
       <<"auto_sleep_mode", "name">>, <<"led_mode", "name">> >>

\* What the lambda of a key returns for the parsed value v. An enum value is
\* held as the characters of its name; str(bytes) is the repr b'...' of it.
Format(kind, v) ==
    CASE kind = "str" -> Bytes(Str(v))
      [] kind = "onoff" -> Bytes(OnOff(v))
      [] kind = "name" -> Bytes(v)
      [] kind = "strname" -> [kind |-> "str", text |-> <<"b", "'">> \o v \o <<"'">>,
                               num |-> 0, list |-> <<>>]

\* f'bluetti/state/{msg.device.type}-{msg.device.sn}/' + key
Topic(device, key) == <<"bluetti/state", device.type, device.sn, key>>

PackKey(n) == CASE n = 1 -> "pack_details1" [] n = 2 -> "pack_details2" [] OTHER -> "pack_details"

Has(d, k) == k \in DOMAIN d
Put(d, k, v) == (k :> v) @@ d
\* dict.get(key, None), as a set: {} is None
Get(d, k) == IF Has(d, k) THEN {d[k]} ELSE {}
Empty == [x \in {} |-> 0]

(***************************************************************************)
(* _update_value, _update_energy, _handle_message                          *)
(*                                                                         *)
(* The three coroutines run on the record st: the two dictionaries, the    *)
(* _update_value calls made so far, and the status of the run: "ok",       *)
(* "mqtt_error" (client.publish raised MqttError) or "key_error" (a lookup *)
(* in msg.parsed raised KeyError). An exception ends the run: every later  *)
(* step leaves st alone. failAt = n > 0 makes the n-th client.publish of   *)
(* the run raise; failAt = 0 is a healthy client.                          *)
(***************************************************************************)
Run(cache, energy, failAt) ==
    [cache |-> cache, energy |-> energy, calls |-> <<>>, status |-> "ok", failAt |-> failAt]

\* F(x), with x evaluated once.
Bind(x, F(_)) == CHOOSE r \in {F(v) : v \in {x}} : TRUE

\* _update_value without self.value_cache[key] = value.
_update_value_without_store(st0, topic, key, value) ==
    Bind(st0, LAMBDA st :
        IF st.status # "ok" THEN st
        ELSE IF Get(st.cache, key) # {value}
        THEN [st EXCEPT !.calls = Append(@, [topic |-> topic, key |-> key, value |-> value,
                                             publish |-> TRUE, sent |-> st.failAt # 1]),
                        !.status = IF st.failAt = 1 THEN "mqtt_error" ELSE "ok",
                        !.failAt = IF @ > 0 THEN @ - 1 ELSE 0]
        ELSE [st EXCEPT !.calls = Append(@, [topic |-> topic, key |-> key, value |-> value,
                                             publish |-> FALSE, sent |-> FALSE])])

_update_value(st0, topic, key, value) ==
    Bind(st0, LAMBDA st :
        IF st.status # "ok" THEN st
        ELSE IF Get(st.cache, key) # {value}
        THEN [st EXCEPT !.cache = Put(@, key, value),
                        !.calls = Append(@, [topic |-> topic, key |-> key, value |-> value,
                                             publish |-> TRUE, sent |-> st.failAt # 1]),
                        !.status = IF st.failAt = 1 THEN "mqtt_error" ELSE "ok",
                        !.failAt = IF @ > 0 THEN @ - 1 ELSE 0]
        ELSE [st EXCEPT !.calls = Append(@, [topic |-> topic, key |-> key, value |-> value,
                                             publish |-> FALSE, sent |-> FALSE])])

\* timedelta.microseconds of a difference of d microseconds: a timedelta is
\* normalised to days, seconds in 0..86399 and microseconds in 0..999999.
Microseconds(d) == d % MICROSECONDS_PER_SECOND

\* (now - last_value_ts).microseconds * ((last_value + current_value) / 2)
\*     / MICROSECONDS_PER_SECOND, in 1/WsScale Ws
\* The increment with the difference of the two powers for their sum.
WattSeconds_of_difference(d, last_value, current_value) ==
    ((Microseconds(d) * WsScale) \div (2 * MICROSECONDS_PER_SECOND)) * (last_value - current_value)

WattSeconds(d, last_value, current_value) ==
    ((Microseconds(d) * WsScale) \div (2 * MICROSECONDS_PER_SECOND)) * (last_value + current_value)

\* round(ws / SECONDS_PER_HOUR, 2) in hundredths of a Wh; round() rounds a
\* tie to even.
Round2(ws) ==
    LET num == ws * 100
        den == SECONDS_PER_HOUR * WsScale
        q == num \div den
        r == num % den
    IN  IF 2 * r < den THEN q
        ELSE IF 2 * r > den THEN q + 1
        ELSE IF q % 2 = 0 THEN q ELSE q + 1

\* EnergyEntry(): last_value and last_value_ts are class attributes.
EnergyEntry ==
    [last_value |-> 0, watt_seconds_total |-> 0, last_value_ts |-> ClassDefinitionTime]

\* self.calculated_energy.get(key, self.EnergyEntry()).watt_seconds_total
TotalOf(energy, key) == IF Has(energy, key) THEN energy[key].watt_seconds_total ELSE 0

\* state = self.calculated_energy.setdefault(energy_key, self.EnergyEntry())
\* and the three assignments to it: the dictionary afterwards.
Integrate(energy, now, energy_key, current_value) ==
    LET state == IF Has(energy, energy_key) THEN energy[energy_key] ELSE EnergyEntry
    IN  Put(energy, energy_key,
            [last_value |-> current_value,
             watt_seconds_total |-> state.watt_seconds_total
                + WattSeconds(now - state.last_value_ts, state.last_value, current_value),
             last_value_ts |-> now])

PublishEnergy(st, device, energy_key) ==
    _update_value(st, Topic(device, energy_key), energy_key,
                  Float(Round2(st.energy[energy_key].watt_seconds_total)))

\* The total as the sum of the two rounded components.
PublishTotalIn_of_rounded(st0, device) ==
    Bind(st0, LAMBDA st :
        _update_value(st, Topic(device, "total_input_energy"), "total_input_energy",
                      Float(Round2(TotalOf(st.energy, "ac_input_energy"))
                                + Round2(TotalOf(st.energy, "dc_input_energy")))))

PublishTotalIn(st0, device) ==
    Bind(st0, LAMBDA st :
        _update_value(st, Topic(device, "total_input_energy"), "total_input_energy",
                      Float(Round2(TotalOf(st.energy, "ac_input_energy")
                                    + TotalOf(st.energy, "dc_input_energy")))))

PublishTotalOut(st0, device) ==
    Bind(st0, LAMBDA st :
        _update_value(st, Topic(device, "total_output_energy"), "total_output_energy",
                      Float(Round2(TotalOf(st.energy, "ac_output_energy")
                                    + TotalOf(st.energy, "dc_output_energy")))))

\* _update_energy without the test of current_value.
_update_energy_of_any_value(st0, now, device, energy_key, current_value) ==
    Bind(st0, LAMBDA st :
        IF st.status # "ok" THEN st
        ELSE PublishTotalOut(
                PublishTotalIn(
                    PublishEnergy(
                        [st EXCEPT !.energy = Integrate(@, now, energy_key, current_value)],
                        device, energy_key),
                    device),
                device))

_update_energy(st0, now, device, energy_key, current_value) ==
    Bind(st0, LAMBDA st :
        IF st.status # "ok" \/ current_value = 0 THEN st
        ELSE PublishTotalOut(
                PublishTotalIn(
                    PublishEnergy(
                        [st EXCEPT !.energy = Integrate(@, now, energy_key, current_value)],
                        device, energy_key),
                    device),
                device))

\* for power, energy in self.energy_counters.items(): entries i..4
RECURSIVE EnergyLoop(_, _, _, _)
EnergyLoop(st, msg, now, i) ==
    IF i > Len(energy_counters) THEN st
    ELSE LET power == energy_counters[i][1]
             energy == energy_counters[i][2]
         IN  EnergyLoop(IF Has(msg.parsed, power)
                        THEN _update_energy(st, now, msg.device, energy, msg.parsed[power])
                        ELSE st,
                        msg, now, i + 1)

\* if 'pack_battery_percent' in msg.parsed: ...
PackDetails(st0, msg) ==
    Bind(st0, LAMBDA st :
        IF st.status # "ok" \/ ~Has(msg.parsed, "pack_battery_percent") THEN st
        ELSE IF ~Has(msg.parsed, "cell_voltages") \/ ~Has(msg.parsed, "pack_num")
        THEN [st EXCEPT !.status = "key_error"]
        ELSE LET pack_key == PackKey(msg.parsed["pack_num"])
             IN  _update_value(st, Topic(msg.device, pack_key), pack_key,
                               Json(msg.parsed["pack_battery_percent"],
                                    msg.parsed["cell_voltages"])))

\* for key, format_lambda in self.message_parsers.items(): if key in
\* msg.parsed: ... -- the entries whose key the event carries, in table order,
\* from the i-th on.
PresentParsers(msg) ==
    LET Present(entry) == Has(msg.parsed, entry[1])
    IN  SelectSeq(message_parsers, Present)

RECURSIVE ParserLoop(_, _, _, _)
ParserLoop(st, msg, entries, i) ==
    IF i > Len(entries) THEN st
    ELSE ParserLoop(_update_value(st, Topic(msg.device, entries[i][1]), entries[i][1],
                                  Format(entries[i][2], msg.parsed[entries[i][1]])),
                    msg, entries, i + 1)

_handle_message(st, msg, now) ==
    ParserLoop(PackDetails(EnergyLoop(st, msg, now, 1), msg), msg, PresentParsers(msg), 1)

(***************************************************************************)
(* The command router: _handle_command                                     *)
(*                                                                         *)
(* A topic or payload is the sequence of its characters.                   *)
(***************************************************************************)
\* The characters of a string literal of the code or of the model's inputs.
Chars(s) ==
    CASE s = "bluetti/command/" -> <<"b", "l", "u", "e", "t", "t", "i", "/", "c", "o", "m", "m", "a", "n", "d", "/">>
      [] s = "bluetti/state/" -> <<"b", "l", "u", "e", "t", "t", "i", "/", "s", "t", "a", "t", "e", "/">>
      [] s = "AC300" -> <<"A", "C", "3", "0", "0">>
      [] s = "EP500" -> <<"E", "P", "5", "0", "0">>
      [] s = "500" -> <<"5", "0", "0">>
      [] s = "12345" -> <<"1", "2", "3", "4", "5">>
      [] s = "999" -> <<"9", "9", "9">>
      [] s = "ups_mode" -> <<"u", "p", "s", "_", "m", "o", "d", "e">>
      [] s = "auto_sleep_mode" -> <<"a", "u", "t", "o", "_", "s", "l", "e", "e", "p", "_", "m", "o", "d", "e">>
      [] s = "led_mode" -> <<"l", "e", "d", "_", "m", "o", "d", "e">>
      [] s = "ac_output_on" -> <<"a", "c", "_", "o", "u", "t", "p", "u", "t", "_", "o", "n">>
      [] s = "dc_output_on" -> <<"d", "c", "_", "o", "u", "t", "p", "u", "t", "_", "o", "n">>
      [] s = "grid_charge_on" -> <<"g", "r", "i", "d", "_", "c", "h", "a", "r", "g", "e", "_", "o", "n">>
      [] s = "time_control_on" -> <<"t", "i", "m", "e", "_", "c", "o", "n", "t", "r", "o", "l", "_", "o", "n">>
      [] s = "battery_range_start" -> <<"b", "a", "t", "t", "e", "r", "y", "_", "r", "a", "n", "g", "e", "_", "s", "t", "a", "r", "t">>
      [] s = "Led_Mode" -> <<"L", "e", "d", "_", "M", "o", "d", "e">>
      [] s = "ON" -> <<"O", "N">>
      [] s = "OFF" -> <<"O", "F", "F">>
      [] s = "on" -> <<"o", "n">>
      [] s = "LOW" -> <<"L", "O", "W">>
      [] s = "HIGH" -> <<"H", "I", "G", "H">>
      [] s = "SOS" -> <<"S", "O", "S">>
      [] s = "STANDARD" -> <<"S", "T", "A", "N", "D", "A", "R", "D">>
      [] s = "BOGUS" -> <<"B", "O", "G", "U", "S">>

Lower == {"a", "b", "c", "d", "e", "f", "g", "h", "i", "j", "k", "l", "m",
          "n", "o", "p", "q", "r", "s", "t", "u", "v", "w", "x", "y", "z"}
Upper == {"A", "B", "C", "D", "E", "F", "G", "H", "I", "J", "K", "L", "M",
          "N", "O", "P", "Q", "R", "S", "T", "U", "V", "W", "X", "Y", "Z"}
DigitChars == {"0", "1", "2", "3", "4", "5", "6", "7", "8", "9"}
WordChars == Lower \cup Upper \cup DigitChars \cup {"_"}
FieldChars == Lower \cup {"_"}
\* A byte above 127, which bytes.decode('ascii') rejects.
NonAscii == "\\xff"

\* The first index from i on whose character is not in class (Len(s) + 1
\* when every character from i on is).
RECURSIVE SpanEnd(_, _, _)
SpanEnd(s, i, class) ==
    IF i <= Len(s) /\ s[i] \in class THEN SpanEnd(s, i + 1, class) ELSE i

\* COMMAND_TOPIC_RE.match(topic): the three groups, or <<>> for None.
\* ^bluetti/command/(\w+)-(\d+)/([a-z_]+)$   ($ also matches before a final newline)
COMMAND_TOPIC_RE(topic) ==
    LET prefix == Chars("bluetti/command/")
        n == Len(topic)
        a == Len(prefix) + 1
        b == SpanEnd(topic, a, WordChars)
        c == b + 1
        d == SpanEnd(topic, c, DigitChars)
        e == d + 1
        f == SpanEnd(topic, e, FieldChars)
    IN  IF /\ n >= Len(prefix) /\ SubSeq(topic, 1, Len(prefix)) = prefix
           /\ b > a /\ b <= n /\ topic[b] = "-"
           /\ d > c /\ d <= n /\ topic[d] = "/"
           /\ f > e
           /\ (f = n + 1 \/ (f = n /\ topic[f] = "\n"))
        THEN <<SubSeq(topic, a, b - 1), SubSeq(topic, c, d - 1), SubSeq(topic, e, f - 1)>>
        ELSE <<>>

\* self.devices, in list order.
devices == <<DevA, DevB>>

\* The values of a command: a bool or an enum name.
BoolValue(b) == [kind |-> "bool", flag |-> b, name |-> <<>>]
NameValue(name) == [kind |-> "name", flag |-> FALSE, name |-> name]

\* BluettiDevice (bluetti_mqtt.core): the fields a device declares writable,
\* and the names of its enumerated fields.
Setters(device) ==
    IF device = DevA
    THEN {"ups_mode", "auto_sleep_mode", "led_mode", "ac_output_on", "dc_output_on",
          "grid_charge_on", "time_control_on", "battery_range_start"}
    ELSE {"ac_output_on", "dc_output_on"}

has_field_setter(device, field) == \E f \in Setters(device) : Chars(f) = field

EnumNames(field) ==
    IF field = Chars("led_mode")
    THEN {Chars("LOW"), Chars("HIGH"), Chars("SOS"), Chars("OFF")}
    ELSE {Chars("STANDARD")}

\* device.build_setter_command(field, value): a DeviceCommand, or the device
\* refuses the value (NoCommand).
NoCommand == [kind |-> "none", field |-> <<>>, value |-> BoolValue(FALSE)]

build_setter_command(device, field, value) ==
    IF value.kind = "name" /\ value.name \notin EnumNames(field) THEN NoCommand
    ELSE [kind |-> "write", field |-> field, value |-> value]

EnumFields == {Chars("ups_mode"), Chars("auto_sleep_mode"), Chars("led_mode")}
SwitchFields == {Chars("ac_output_on"), Chars("dc_output_on"), Chars("grid_charge_on"),
                 Chars("time_control_on")}

\* next((d for d in self.devices if d.type == m[1] and d.sn == m[2]), None),
\* as the index of the device in self.devices; 0 for None.
FindDevice(m) ==
    LET hits == {i \in 1..Len(devices) :
                    Chars(devices[i].type) = m[1] /\ Chars(devices[i].sn) = m[2]}
    IN  IF hits = {} THEN 0 ELSE CHOOSE i \in hits : \A j \in hits : i <= j

\* What one call of _handle_command does: the CommandMessages it puts on
\* the bus and how it ends: "put", a "drop_..." (warning and return) or
\* "raised" (an exception leaves the coroutine). refusal is how the device
\* refuses a value: "raise" (build_setter_command raises) or "none" (it
\* returns no command).
Dropped(why) == [requests |-> <<>>, outcome |-> why]

BuildAndPut(device, field, value, refusal) ==
    LET cmd == build_setter_command(device, field, value)
    IN  IF cmd = NoCommand /\ refusal = "raise" THEN Dropped("raised")
        ELSE [requests |-> <<[device |-> device, cmd |-> cmd]>>, outcome |-> "put"]

\* The payload compared without regard to case.
IsOn_any_case(payload) == payload \in {Chars("ON"), Chars("on")}

\* value = mqtt_message.payload == b'ON'
IsOn(payload) == payload = Chars("ON")

\* _handle_command without the has_field_setter check.
_handle_command_any_field(mqtt_message, refusal) ==
    LET m == COMMAND_TOPIC_RE(mqtt_message.topic)
        i == FindDevice(m)
    IN  IF m = <<>> THEN Dropped("drop_topic")
        ELSE IF i = 0 THEN Dropped("drop_device")
        ELSE IF m[3] \in EnumFields
        THEN IF \E j \in 1..Len(mqtt_message.payload) : mqtt_message.payload[j] = NonAscii
             THEN Dropped("raised")
             ELSE BuildAndPut(devices[i], m[3], NameValue(mqtt_message.payload), refusal)
        ELSE IF m[3] \in SwitchFields
        THEN BuildAndPut(devices[i], m[3], BoolValue(IsOn(mqtt_message.payload)), refusal)
        ELSE Dropped("drop_unhandled")

_handle_command(mqtt_message, refusal) ==
    LET m == COMMAND_TOPIC_RE(mqtt_message.topic)
        i == FindDevice(m)
    IN  IF m = <<>> THEN Dropped("drop_topic")
        ELSE IF i = 0 THEN Dropped("drop_device")
        ELSE IF ~has_field_setter(devices[i], m[3]) THEN Dropped("drop_field")
        ELSE IF m[3] \in EnumFields
        THEN IF \E j \in 1..Len(mqtt_message.payload) : mqtt_message.payload[j] = NonAscii
             THEN Dropped("raised")
             ELSE BuildAndPut(devices[i], m[3], NameValue(mqtt_message.payload), refusal)
        ELSE IF m[3] \in SwitchFields
        THEN BuildAndPut(devices[i], m[3], BoolValue(IsOn(mqtt_message.payload)), refusal)
        ELSE Dropped("drop_unhandled")

(***************************************************************************)
(* What an observer of the client records of a run of _handle_message      *)
(***************************************************************************)
Max(S) == CHOOSE x \in S : \A y \in S : y <= x

\* The publish calls among cs[1..i-1] whose field f equals that of cs[i].
EarlierKey(cs, i) == {j \in 1..(i - 1) : cs[j].publish /\ cs[j].key = cs[i].key}
EarlierTopic(cs, i) == {j \in 1..(i - 1) : cs[j].publish /\ cs[j].topic = cs[i].topic}

\* Each call of the run with what had last been published before it for its
\* key (prevKey) and on its topic (prevTopic), {} when nothing had been, and
\* whether it is the first call ever made for its key.
Observe(cs, pubs, onTopic, keys) ==
    [i \in 1..Len(cs) |->
        [topic |-> cs[i].topic, key |-> cs[i].key, value |-> cs[i].value,
         publish |-> cs[i].publish, sent |-> cs[i].sent,
         prevKey |-> IF EarlierKey(cs, i) = {} THEN Get(pubs, cs[i].key)
                     ELSE {cs[Max(EarlierKey(cs, i))].value},
         prevTopic |-> IF EarlierTopic(cs, i) = {} THEN Get(onTopic, cs[i].topic)
                       ELSE {cs[Max(EarlierTopic(cs, i))].value},
         first |-> cs[i].key \notin keys /\ \A j \in 1..(i - 1) : cs[j].key # cs[i].key]]

PublishedKeys(cs) == {cs[i].key : i \in {j \in 1..Len(cs) : cs[j].publish}}
PublishedTopics(cs) == {cs[i].topic : i \in {j \in 1..Len(cs) : cs[j].publish}}

LastPubAfter(pubs, cs) ==
    [k \in DOMAIN pubs \cup PublishedKeys(cs) |->
        IF k \in PublishedKeys(cs)
        THEN cs[Max({j \in 1..Len(cs) : cs[j].publish /\ cs[j].key = k})].value
        ELSE pubs[k]]

\* The calls with only those counted as publishing whose publish returned.
SentCalls(cs) == [i \in 1..Len(cs) |-> [cs[i] EXCEPT !.publish = cs[i].sent]]

LastOnTopicAfter(onTopic, cs) ==
    [t \in DOMAIN onTopic \cup PublishedTopics(cs) |->
        IF t \in PublishedTopics(cs)
        THEN cs[Max({j \in 1..Len(cs) : cs[j].publish /\ cs[j].topic = t})].value
        ELSE onTopic[t]]

\* The exact trapezoidal rule over the full elapsed time d (microseconds),
\* in 1/WsScale Ws.
Trapezoid(d, p0, p1) == ((d * WsScale) \div (2 * MICROSECONDS_PER_SECOND)) * (p0 + p1)

\* The trapezoidal sum of the samples fed for one energy key. regular: every
\* sample so far was nonzero and strictly later than the one before it.
TrapSample(tr, k, p, now) ==
    IF ~Has(tr, k)
    THEN Put(tr, k, [n |-> 1, t |-> now, p |-> p, sum |-> 0, regular |-> p # 0])
    ELSE IF tr[k].regular /\ p # 0 /\ now > tr[k].t
    THEN Put(tr, k, [n |-> tr[k].n + 1, t |-> now, p |-> p,
                     sum |-> tr[k].sum + Trapezoid(now - tr[k].t, tr[k].p, p),
                     regular |-> TRUE])
    ELSE Put(tr, k, [tr[k] EXCEPT !.regular = FALSE])

RECURSIVE TrapAfter(_, _, _, _)
TrapAfter(tr, msg, now, i) ==
    IF i > Len(energy_counters) THEN tr
    ELSE TrapAfter(IF Has(msg.parsed, energy_counters[i][1])
                   THEN TrapSample(tr, energy_counters[i][2], msg.parsed[energy_counters[i][1]], now)
                   ELSE tr,
                   msg, now, i + 1)

(***************************************************************************)
(* The telemetry loop of one healthy connection                            *)
(***************************************************************************)
Msg(device, parsed) == [device |-> device, parsed |-> parsed]

Powers == {0, 100, 200}

PowerMsgs ==
    {Msg(DevA, "ac_input_power" :> p) : p \in Powers}
        \cup {Msg(DevA, "dc_input_power" :> 100),
              Msg(DevB, "ac_input_power" :> 100),
              Msg(DevA, ("ac_output_power" :> 100) @@ ("dc_output_power" :> 200)),
              Msg(DevA, ("ac_input_power" :> 0) @@ ("dc_input_power" :> 100))}

StatusMsgs ==
    {Msg(d, "total_battery_percent" :> 50) : d \in Devices}
        \cup {Msg(DevA, "total_battery_percent" :> 51),
              Msg(DevA, ("ac_output_on" :> TRUE) @@ ("led_mode" :> <<"S", "O", "S">>)),
              Msg(DevA, "firmware_build" :> 7),
              Msg(DevA, ("pack_battery_percent" :> 80) @@ ("cell_voltages" :> <<3, 4>>)
                            @@ ("pack_num" :> 1)),
              Msg(DevB, "pack_battery_percent" :> 80)}

TelemetryMsgs == PowerMsgs \cup StatusMsgs

\* now = datetime.now(): the reading is used by _update_energy alone. The
\* events of ac_input_power alone are taken at every clock reading, the
\* other power events a tick after the class was defined.
NowFor(msg) ==
    IF msg \in {Msg(DevA, "ac_input_power" :> p) : p \in Powers} THEN Times
    ELSE IF msg \in PowerMsgs THEN {Tick}
    ELSE {ClassDefinitionTime}

\* The MQTTClient objects of the process; the bridge run() of the model is
\* that of the first.
Instances == {1, 2}

telemetryVars ==
    <<value_cache, calculated_energy, msgLoop, calls, lastPub, lastOnTopic, lastSent, seen,
      trap, last, nEvents, fed>>

bridgeVars ==
    <<pc, error, failures, cmdLoop, message_queue, listeners, stranded, handled, lastCmd,
      busOut, nCmds>>

vars == <<telemetryVars, bridgeVars>>

InitTelemetry ==
    /\ value_cache = Empty
    /\ calculated_energy = Empty
    /\ calls = <<>>
    /\ lastPub = Empty
    /\ lastOnTopic = Empty
    /\ lastSent = Empty
    /\ seen = {}
    /\ trap = Empty
    /\ last = [msg |-> Msg(DevA, Empty), now |-> ClassDefinitionTime]
    /\ nEvents = 0
    /\ fed = [i \in Instances |-> <<>>]

\* One turn of _handle_messages: msg = await self.message_queue.get();
\* await self._handle_message(client, msg).
Handle(msg, now, failAt) ==
    \E r \in {_handle_message(Run(value_cache, calculated_energy, failAt), msg, now)} :
        /\ value_cache' = r.cache
        /\ calculated_energy' = r.energy
        /\ msgLoop' = CASE r.status = "ok" -> "running"
                        [] r.status = "mqtt_error" -> "mqtt_error"
                        [] r.status = "key_error" -> "crashed"
        /\ calls' = Observe(r.calls, lastPub, lastOnTopic, seen)
        /\ lastPub' = LastPubAfter(lastPub, r.calls)
        /\ lastOnTopic' = LastOnTopicAfter(lastOnTopic, r.calls)
        /\ lastSent' = LastPubAfter(lastSent, SentCalls(r.calls))
        /\ seen' = seen \cup {r.calls[i].key : i \in 1..Len(r.calls)}

\* except MqttError with a limit on the consecutive retries.
Except_with_retry_cap(exception) ==
    IF exception = "mqtt" /\ failures < 1 THEN "backoff" ELSE "terminated"

\* except MqttError as error: log, sleep 5 and go round the while loop; any
\* other exception leaves run().
Except(exception) == IF exception = "mqtt" THEN "backoff" ELSE "terminated"

\* _handle_message of the instance inst takes msg at the clock reading now.
\* value_cache and calculated_energy are attributes of the class MQTTClient:
\* self.value_cache and self.calculated_energy are the same two dictionaries
\* in every instance.
Feed(inst, msg, now) ==
    /\ Handle(msg, now, 0)
    /\ trap' = TrapAfter(trap, msg, now, 1)
    /\ last' = [msg |-> msg, now |-> now]
    /\ fed' = [fed EXCEPT ![inst] = Append(@, [msg |-> msg, now |-> now])]
    /\ nEvents' = nEvents + 1

TelemetryStep ==
    /\ msgLoop = "running"
    /\ nEvents < MaxEvents
    /\ \E msg \in TelemetryMsgs : \E now \in NowFor(msg) : Feed(1, msg, now)
    /\ pc' = IF msgLoop' = "crashed" THEN Except("other") ELSE pc
    /\ error' = IF msgLoop' = "crashed" THEN "other" ELSE error
    /\ UNCHANGED <<failures, cmdLoop, message_queue, listeners, stranded, handled, lastCmd,
                   busOut, nCmds>>

\* A command message: bluetti/command/<device>/<field> with a payload.
CommandTopic(type, sn, field) ==
    Chars("bluetti/command/") \o Chars(type) \o <<"-">> \o Chars(sn) \o <<"/">> \o Chars(field)

MqttMessage(topic, payload) == [topic |-> topic, payload |-> payload]

NoMessage == MqttMessage(<<>>, <<>>)

InitBridge ==
    /\ error = "none"
    /\ failures = 0
    /\ message_queue = <<>>
    /\ stranded = 0
    /\ handled = Empty
    /\ lastCmd = [msg |-> NoMessage, requests |-> <<>>, outcome |-> "none"]
    /\ busOut = 0
    /\ nCmds = 0

\* The state of one live connection: run() waits in asyncio.gather.
Connected ==
    /\ pc = "running"
    /\ cmdLoop = "running"
    /\ msgLoop = "running"
    /\ listeners = 1

\* The state once both loops of the first connection run.
InitConnected ==
    /\ InitTelemetry
    /\ InitBridge
    /\ Connected

TelemetrySpec == InitConnected /\ [][TelemetryStep]_vars

\* Two MQTTClient objects in one process, each with a live telemetry loop.
InstanceMsgs == {Msg(DevA, "ac_input_power" :> 100), Msg(DevA, "dc_input_power" :> 100)}

InstanceStep ==
    /\ msgLoop = "running"
    /\ nEvents < MaxEvents
    /\ \E inst \in Instances : \E msg \in InstanceMsgs : \E now \in Times :
          Feed(inst, msg, now)
    /\ UNCHANGED bridgeVars

InstancesSpec == InitConnected /\ [][InstanceStep]_vars

(***************************************************************************)
(* The command loop of one live connection                                 *)
(***************************************************************************)
Payloads == {Chars("ON"), Chars("OFF"), Chars("on"), <<>>, Chars("SOS"), Chars("BOGUS"),
             <<NonAscii>>}

\* The command topics of the model, by what they name.
SwitchCases ==
    {[device |-> DevA, field |-> f] : f \in {"ac_output_on", "grid_charge_on", "time_control_on"}}
        \cup {[device |-> DevB, field |-> "dc_output_on"]}
EnumCases == {[device |-> DevA, field |-> f] : f \in {"led_mode", "ups_mode"}}
TopicOf(case) == CommandTopic(case.device.type, case.device.sn, case.field)

SwitchTopics == {TopicOf(c) : c \in SwitchCases}
EnumTopics == {TopicOf(c) : c \in EnumCases}
\* a field the device declares writable that is in neither list of the router
UnhandledTopics == {CommandTopic("AC300", "500", "battery_range_start")}
\* a field the device does not declare writable
NotWritableTopics == {CommandTopic("EP500", "12345", "led_mode"),
                      CommandTopic("EP500", "12345", "battery_range_start")}
\* a (type, serial number) that is no device of the list
UnknownDeviceTopics == {CommandTopic("AC300", "999", "ac_output_on"),
                        CommandTopic("AC300", "12345", "ac_output_on")}
\* not of the grammar: another root, no "-", a capital in the field, no field
MalformedTopics ==
    {Chars("bluetti/state/") \o Chars("AC300") \o <<"-">> \o Chars("500")
        \o <<"/">> \o Chars("ac_output_on"),
     Chars("bluetti/command/") \o Chars("AC300") \o Chars("500")
        \o <<"/">> \o Chars("ac_output_on"),
     CommandTopic("AC300", "500", "Led_Mode"),
     Chars("bluetti/command/") \o Chars("AC300") \o <<"-">> \o Chars("500") \o <<"/">>}

CommandTopics ==
    SwitchTopics \cup EnumTopics \cup UnhandledTopics \cup NotWritableTopics
        \cup UnknownDeviceTopics \cup MalformedTopics

CommandMsgs == {MqttMessage(t, p) : t \in CommandTopics, p \in Payloads}

\* One turn of _handle_commands: async for mqtt_message in messages:
\* await self._handle_command(mqtt_message). An exception of _handle_command
\* leaves the loop and, through asyncio.gather, the try body of run().
Command(mqtt_message, refusal) ==
    /\ pc = "running"
    /\ cmdLoop = "running"
    /\ nCmds < MaxCmds
    /\ \E r \in {_handle_command(mqtt_message, refusal)} :
          /\ lastCmd' = [msg |-> mqtt_message, requests |-> r.requests, outcome |-> r.outcome]
          /\ busOut' = busOut + Len(r.requests)
          /\ cmdLoop' = IF r.outcome = "raised" THEN "crashed" ELSE "running"
          /\ pc' = IF r.outcome = "raised" THEN Except("other") ELSE pc
          /\ error' = IF r.outcome = "raised" THEN "other" ELSE error
    /\ nCmds' = nCmds + 1
    /\ UNCHANGED <<telemetryVars, failures, message_queue, listeners, stranded, handled>>

RouterStep == \E m \in CommandMsgs : \E refusal \in {"raise", "none"} : Command(m, refusal)

RouterSpec == InitConnected /\ [][RouterStep]_vars

(***************************************************************************)
(* The bridge: run(), the bus, the two loops                               *)
(***************************************************************************)
Min(a, b) == IF a < b THEN a ELSE b

\* The events the bus delivers and the clock readings of the bridge run.
BridgeMsgs ==
    {Msg(DevA, ("total_battery_percent" :> p) @@ ("ac_input_power" :> 100)) : p \in {50, 51}}
BridgeTimes == {Tick}
BridgeCmds ==
    {MqttMessage(CommandTopic("AC300", "500", "ac_output_on"), Chars("ON")),
     MqttMessage(CommandTopic("AC300", "500", "led_mode"), Chars("BOGUS"))}

Init ==
    /\ InitTelemetry
    /\ InitBridge
    /\ pc = "connecting"
    /\ cmdLoop = "idle"
    /\ msgLoop = "idle"
    /\ listeners = 0

\* The try body or a loop raised: what run() does with it.
Raise(exception) ==
    /\ pc' = Except(exception)
    /\ error' = exception
    /\ failures' = IF exception = "mqtt" THEN Min(failures + 1, MaxFailures) ELSE failures

\* A connect that starts from an empty cache and empty accumulators.
Connect_with_reset ==
    /\ pc = "connecting"
    /\ listeners < MaxListeners
    /\ pc' = "discovery"
    /\ message_queue' = <<>>
    /\ listeners' = listeners + 1
    /\ stranded' = IF msgLoop = "running" THEN stranded + 1 ELSE stranded
    /\ msgLoop' = "idle"
    /\ cmdLoop' = "idle"
    /\ failures' = 0
    /\ value_cache' = Empty
    /\ calculated_energy' = Empty
    /\ UNCHANGED <<calls, lastPub, lastOnTopic, lastSent, seen,
                   trap, last, nEvents, fed, error, handled, lastCmd, busOut, nCmds>>

\* async with Client(...) as client: the connection is made;
\* self.message_queue = asyncio.Queue(); self.bus.add_parser_listener(self.handle_message).
\* A telemetry loop of an earlier connection that is still alive keeps
\* waiting on the queue this replaces.
Connect ==
    /\ pc = "connecting"
    /\ listeners < MaxListeners
    /\ pc' = "discovery"
    /\ message_queue' = <<>>
    /\ listeners' = listeners + 1
    /\ stranded' = IF msgLoop = "running" THEN stranded + 1 ELSE stranded
    /\ msgLoop' = "idle"
    /\ cmdLoop' = "idle"
    /\ failures' = 0
    /\ UNCHANGED <<value_cache, calculated_energy, calls, lastPub, lastOnTopic, lastSent, seen,
                   trap, last, nEvents, fed, error, handled, lastCmd, busOut, nCmds>>

\* async with Client(...): connecting raises MqttError.
ConnectFails ==
    /\ pc = "connecting"
    /\ Raise("mqtt")
    /\ UNCHANGED <<telemetryVars, cmdLoop, message_queue, listeners, stranded, handled,
                   lastCmd, busOut, nCmds>>

\* await self._send_discovery_message(client), then asyncio.gather starts
\* the two loops.
Discovery ==
    /\ pc = "discovery"
    /\ pc' = "running"
    /\ cmdLoop' = "running"
    /\ msgLoop' = "running"
    /\ UNCHANGED <<value_cache, calculated_energy, calls, lastPub, lastOnTopic, lastSent, seen,
                   trap, last, nEvents, fed, error, failures, message_queue, listeners, stranded,
                   handled, lastCmd, busOut, nCmds>>

\* A publish of _send_discovery_message raises MqttError.
DiscoveryFails ==
    /\ pc = "discovery"
    /\ Raise("mqtt")
    /\ UNCHANGED <<telemetryVars, cmdLoop, message_queue, listeners, stranded, handled,
                   lastCmd, busOut, nCmds>>

\* await asyncio.sleep(5) returns and the while loop starts the next cycle.
Backoff ==
    /\ pc = "backoff"
    /\ pc' = "connecting"
    /\ error' = "none"
    /\ UNCHANGED <<telemetryVars, failures, cmdLoop, message_queue, listeners, stranded,
                   handled, lastCmd, busOut, nCmds>>

\* The bus delivers an event to its parser listeners: each registration of
\* handle_message puts it on self.message_queue.
RECURSIVE Copies(_, _)
Copies(x, n) == IF n = 0 THEN <<>> ELSE <<x>> \o Copies(x, n - 1)

\* self.message_queue = asyncio.Queue(): maxsize 0, a queue without limit.
message_queue_maxsize == 0

\* A queue made with maxsize=1.
message_queue_full_of_one(qsize) == qsize >= 1

\* Queue.full(), which makes await self.message_queue.put(msg) wait for the
\* consumer: never, for maxsize 0.
message_queue_full(qsize) == message_queue_maxsize > 0 /\ qsize >= message_queue_maxsize

\* The bus goes through the registrations one after the other: the event is
\* delivered when every handle_message returned.
Deliver ==
    /\ listeners > 0
    /\ Cardinality(DOMAIN handled) < MaxDelivered
    /\ Len(message_queue) + listeners <= MaxQueue
    /\ \A n \in 0..(listeners - 1) : ~message_queue_full(Len(message_queue) + n)
    /\ \E msg \in BridgeMsgs :
          LET id == Cardinality(DOMAIN handled) + 1
          IN  /\ message_queue' = message_queue \o Copies([id |-> id, msg |-> msg], listeners)
              /\ handled' = Put(handled, id, 0)
    /\ UNCHANGED <<telemetryVars, pc, error, failures, cmdLoop, listeners, stranded, lastCmd,
                   busOut, nCmds>>

\* A queue that hands out the item put last.
message_queue_get_lifo(q) == [item |-> q[Len(q)], rest |-> SubSeq(q, 1, Len(q) - 1)]

\* await self.message_queue.get() on the asyncio.Queue() of run(): the item
\* put first, and the queue without it.
message_queue_get(q) == [item |-> Head(q), rest |-> Tail(q)]

\* One turn of a telemetry loop that waits on self.message_queue. While
\* run() waits in gather the loop is that of the live connection and an
\* exception of it leaves the try body; otherwise the loop is a leftover of
\* an earlier connection and its exception is never retrieved.
TelemetryTurn ==
    /\ msgLoop = "running"
    /\ message_queue # <<>>
    /\ \E got \in {message_queue_get(message_queue)} :
          /\ \E now \in BridgeTimes : \E failAt \in 0..MaxFailAt :
                /\ Handle(got.item.msg, now, failAt)
                /\ fed' = [fed EXCEPT ![1] = Append(@, [msg |-> got.item.msg, now |-> now])]
          /\ message_queue' = got.rest
          /\ handled' = [handled EXCEPT ![got.item.id] = @ + 1]
    /\ IF pc = "running" /\ msgLoop' = "mqtt_error" THEN Raise("mqtt")
       ELSE IF pc = "running" /\ msgLoop' = "crashed" THEN Raise("other")
       ELSE UNCHANGED <<pc, error, failures>>
    /\ UNCHANGED <<trap, last, nEvents, cmdLoop, listeners, stranded, lastCmd, busOut, nCmds>>

\* The messages iterator of _handle_commands raises MqttError: the broker
\* dropped the connection.
ConnectionLost ==
    /\ pc = "running"
    /\ cmdLoop = "running"
    /\ cmdLoop' = "mqtt_error"
    /\ Raise("mqtt")
    /\ UNCHANGED <<telemetryVars, message_queue, listeners, stranded, handled, lastCmd,
                   busOut, nCmds>>

CommandTurn == \E m \in BridgeCmds : \E refusal \in {"raise", "none"} : Command(m, refusal)

Next ==
    \/ Connect
    \/ ConnectFails
    \/ Discovery
    \/ DiscoveryFails
    \/ Backoff
    \/ Deliver
    \/ TelemetryTurn
    \/ ConnectionLost
    \/ CommandTurn

Spec == Init /\ [][Next]_vars

\* asyncio.sleep(5) returns: the sleeping run() is resumed.
LiveSpec == Spec /\ WF_vars(Backoff)

(***************************************************************************)
(* Properties of the bridge, by the statement of the specification (C1..)   *)
(***************************************************************************)
\* One event was handled by this step.
Handled == nEvents' = nEvents + 1

\* C1: for every energy key, as long as every sample fed to _update_energy
\* for it was nonzero and strictly later than the one before, the
\* accumulated watt-seconds equal the exact trapezoidal sum over the full
\* elapsed time, and the value published is that sum in Wh, rounded.
C1_ExactTrapezoid ==
    \A k \in DOMAIN trap :
        trap[k].regular =>
            /\ Has(calculated_energy, k)
            /\ calculated_energy[k].watt_seconds_total = trap[k].sum
            /\ Has(lastPub, k)
            /\ lastPub[k] = Float(Round2(trap[k].sum))

\* C2: of the calls of _update_value, one that publishes never carries the
\* value last published for its key, and the first call ever made for a
\* key publishes.
C2_NoRepeatAndFirstPublished ==
    \A i \in 1..Len(calls) :
        /\ calls[i].publish => calls[i].prevKey # {calls[i].value}
        /\ calls[i].first => calls[i].publish

\* A key that was published before is called with a new value and with the
\* value it last published: the one publishes, the other does not.
C2_Witness ==
    \E i, j \in 1..Len(calls) :
        /\ calls[i].publish /\ ~calls[i].first /\ calls[i].prevKey # {}
        /\ ~calls[j].publish /\ calls[j].prevKey = {calls[j].value}

\* C3: a value is withheld from a device's topic only when it is the value
\* last published on that topic, so the first value a device reports for a
\* field is published on its own topic whatever another device reported.
C3_KeyedByDeviceAndField ==
    \A i \in 1..Len(calls) :
        ~calls[i].publish => calls[i].prevTopic = {calls[i].value}

\* C4: whenever run() caught a transport error it sleeps and then starts a
\* new connect attempt, whatever the number of failures before; a
\* transport error never ends run().
C4_AlwaysRetries ==
    [](error = "mqtt" => (pc # "terminated" /\ <>(pc = "connecting")))

\* A new attempt starts after MaxFailures consecutive transport failures.
C4_Witness == pc = "connecting" /\ failures = MaxFailures /\ listeners > 0

\* C5: a nonzero sample whose clock reading is not after the last sample
\* time of its key leaves the EnergyEntry of that key as it was.
C5_StaleSampleIsNoOp ==
    [][Handled =>
        \A i \in 1..Len(energy_counters) :
            LET power == energy_counters[i][1]
                k == energy_counters[i][2]
            IN  (/\ Has(last'.msg.parsed, power)
                 /\ last'.msg.parsed[power] # 0
                 /\ Has(calculated_energy, k)
                 /\ last'.now <= calculated_energy[k].last_value_ts)
                    => calculated_energy'[k] = calculated_energy[k]]_vars

\* The value last published for key k, in hundredths of a Wh; 0 when none was.
Published(k) == IF Has(lastPub, k) THEN lastPub[k].num ELSE 0

\* C6 as stated: the total last published is the sum of the two component
\* values last published.
C6_TotalIsSumOfPublished ==
    /\ Has(lastPub, "total_input_energy") =>
            Published("total_input_energy")
                = Published("ac_input_energy") + Published("dc_input_energy")
    /\ Has(lastPub, "total_output_energy") =>
            Published("total_output_energy")
                = Published("ac_output_energy") + Published("dc_output_energy")

\* C6 as amended: once a sample was integrated, each total last published is
\* the rounded sum of the two unrounded accumulators (a missing one is 0).
C6_TotalIsRoundedSum ==
    DOMAIN calculated_energy # {} =>
        /\ Has(lastPub, "total_input_energy")
        /\ lastPub["total_input_energy"]
              = Float(Round2(TotalOf(calculated_energy, "ac_input_energy")
                              + TotalOf(calculated_energy, "dc_input_energy")))
        /\ Has(lastPub, "total_output_energy")
        /\ lastPub["total_output_energy"]
              = Float(Round2(TotalOf(calculated_energy, "ac_output_energy")
                              + TotalOf(calculated_energy, "dc_output_energy")))

\* Both input accumulators hold energy and a nonzero total was published.
C6_Witness ==
    /\ TotalOf(calculated_energy, "ac_input_energy") > 0
    /\ TotalOf(calculated_energy, "dc_input_energy") > 0
    /\ Published("total_input_energy") > 0

\* The last command message named an enumerated field of a device that
\* declares it writable, with an ASCII payload that is none of its names.
RefusedValue ==
    \E c \in EnumCases :
        /\ lastCmd.msg.topic = TopicOf(c)
        /\ \A j \in 1..Len(lastCmd.msg.payload) : lastCmd.msg.payload[j] # NonAscii
        /\ lastCmd.msg.payload \notin EnumNames(Chars(c.field))

\* C7: a message whose value the device refuses puts nothing on the bus
\* and leaves the router and run() running.
C7_RefusedValueIsDropped ==
    RefusedValue =>
        /\ lastCmd.requests = <<>>
        /\ cmdLoop = "running"
        /\ pc = "running"

\* C8: a message whose topic is not of the grammar, names no known device,
\* names a field the device does not declare writable, or names a writable
\* field of neither list puts nothing on the bus and leaves the router and
\* run() running, ready for the next message.
C8_UnroutableIsDropped ==
    lastCmd.msg.topic \in MalformedTopics \cup UnknownDeviceTopics
                            \cup NotWritableTopics \cup UnhandledTopics =>
        /\ lastCmd.requests = <<>>
        /\ lastCmd.outcome \in {"drop_topic", "drop_device", "drop_field", "drop_unhandled"}
        /\ cmdLoop = "running"
        /\ pc = "running"

\* A message for a field the device does not declare writable was dropped
\* after an earlier message had put its request on the bus.
C8_Witness ==
    /\ lastCmd.msg.topic \in NotWritableTopics
    /\ lastCmd.outcome = "drop_field"
    /\ nCmds = 2
    /\ busOut = 1

\* C9: a message for a switch field a known device declares writable puts
\* exactly one request on the bus, for that device and field, with the
\* value true exactly when the payload is the bytes ON.
C9_SwitchValue ==
    \A c \in SwitchCases :
        lastCmd.msg.topic = TopicOf(c) =>
            lastCmd.requests =
                <<[device |-> c.device,
                   cmd |-> [kind |-> "write", field |-> Chars(c.field),
                            value |-> BoolValue(lastCmd.msg.payload = <<"O", "N">>)]]>>

\* The payload on for a switch field gave a request with the value false.
C9_Witness ==
    /\ lastCmd.msg.topic \in SwitchTopics
    /\ lastCmd.msg.payload = <<"o", "n">>
    /\ Len(lastCmd.requests) = 1
    /\ lastCmd.requests[1].cmd.value = BoolValue(FALSE)

\* C10: _handle_message runs at most once for an event the bus delivered,
\* and exactly once for it when the live telemetry loop has emptied the
\* queue of a connection that was not lost since.
C10_ConsumedExactlyOnce ==
    /\ \A id \in DOMAIN handled : handled[id] <= 1
    /\ (pc = "running" /\ msgLoop = "running" /\ message_queue = <<>> /\ listeners = 1) =>
            \A id \in DOMAIN handled : handled[id] = 1

\* C11: the telemetry loop takes the events of a connection in the order
\* handle_message put them on the queue: the event a turn handles was
\* delivered no earlier than any event handled before it and no later than
\* any event still queued, whatever the command loop does in between.
C11_ArrivalOrder ==
    [][\A id \in DOMAIN handled :
          (id \in DOMAIN handled' /\ handled'[id] > handled[id]) =>
              /\ \A j \in DOMAIN handled : handled[j] > 0 => j <= id
              /\ \A k \in 1..Len(message_queue') : message_queue'[k].id >= id]_vars

\* Two events were delivered and each was handled once, with a command
\* handled as well.
C11_Witness ==
    /\ DOMAIN handled = {1, 2}
    /\ handled[1] = 1
    /\ handled[2] = 1
    /\ nCmds > 0

\* The keys _update_energy publishes under.
TotalKeys == {"total_input_energy", "total_output_energy"}

\* The energy keys whose power the event carries with the value 0, and
\* those whose power it carries with another value.
ZeroSampled(msg) ==
    {energy_counters[i][2] : i \in {j \in 1..Len(energy_counters) :
        Has(msg.parsed, energy_counters[j][1]) /\ msg.parsed[energy_counters[j][1]] = 0}}
NonzeroSampled(msg) ==
    {energy_counters[i][2] : i \in {j \in 1..Len(energy_counters) :
        Has(msg.parsed, energy_counters[j][1]) /\ msg.parsed[energy_counters[j][1]] # 0}}

\* C12: a power sample of 0 leaves the EnergyEntry of its key and the cache
\* entry of its energy key as they were and publishes nothing under the
\* energy key; when the event carries no nonzero sample the whole of
\* calculated_energy and the cached totals stay and no total is published.
C12_ZeroSampleIsNoOp ==
    [][Handled =>
        /\ \A k \in ZeroSampled(last'.msg) :
              /\ Get(calculated_energy', k) = Get(calculated_energy, k)
              /\ Get(value_cache', k) = Get(value_cache, k)
              /\ \A i \in 1..Len(calls') : calls'[i].key # k
        /\ (ZeroSampled(last'.msg) # {} /\ NonzeroSampled(last'.msg) = {}) =>
              /\ calculated_energy' = calculated_energy
              /\ \A k \in TotalKeys \cup EnergyKeys :
                    /\ Get(value_cache', k) = Get(value_cache, k)
                    /\ \A i \in 1..Len(calls') : calls'[i].key # k]_vars

\* A sample of 0 was handled for a key that had accumulated energy.
C12_Witness ==
    /\ "ac_input_energy" \in ZeroSampled(last.msg)
    /\ NonzeroSampled(last.msg) = {}
    /\ TotalOf(calculated_energy, "ac_input_energy") > 0

\* C13: a nonzero sample with a clock reading after the last sample time of
\* its key never lowers the watt_seconds_total of that key.
C13_NeverDecreases ==
    [][Handled =>
        \A k \in NonzeroSampled(last'.msg) :
            (Has(calculated_energy, k) /\ last'.now > calculated_energy[k].last_value_ts) =>
                calculated_energy'[k].watt_seconds_total
                    >= calculated_energy[k].watt_seconds_total]_vars

\* A key took two nonzero samples at advancing clock readings and holds
\* energy from the step between them.
C13_Witness ==
    \E k \in DOMAIN trap :
        /\ trap[k].regular
        /\ trap[k].n >= 2
        /\ trap[k].sum > 0
        /\ TotalOf(calculated_energy, k) > 0

\* calculated_energy of an accumulator fed the events of feed from the
\* i-th on, starting from energy.
RECURSIVE EnergyAlone(_, _, _)
EnergyAlone(energy, feed, i) ==
    IF i > Len(feed) THEN energy
    ELSE EnergyAlone(_handle_message(Run(Empty, energy, 0), feed[i].msg, feed[i].now).energy,
                     feed, i + 1)

\* C14: the cumulative values an instance holds are those its own samples
\* give, whatever was fed to the other instance.
C14_InstancesIndependent ==
    \A inst \in Instances :
        fed[inst] # <<>> => calculated_energy = EnergyAlone(Empty, fed[inst], 1)

\* C15: the first nonzero sample of a key creates its EnergyEntry with no
\* energy in it and with the clock reading of that sample as last sample
\* time.
C15_FirstSampleAddsNothing ==
    [][Handled =>
        \A k \in NonzeroSampled(last'.msg) :
            ~Has(calculated_energy, k) =>
                /\ calculated_energy'[k].watt_seconds_total = 0
                /\ calculated_energy'[k].last_value_ts = last'.now]_vars

\* C16: every entry of value_cache holds the value last sent to the broker
\* for its key, also after a publish that raised and the reconnect after it.
C16_CacheIsWhatWasSent ==
    \A k \in DOMAIN value_cache : Get(lastSent, k) = {value_cache[k]}

\* C17: value_cache and calculated_energy change only in a turn of the
\* telemetry loop of the live connection, that is, while run() waits in
\* asyncio.gather for the two loops it started.
C17_OnlyLiveLoopMutates ==
    [][(value_cache' # value_cache \/ calculated_energy' # calculated_energy) =>
            (pc = "running" /\ msgLoop = "running")]_vars

\* C18: an event that was queued when the connection failed, or was put on
\* the queue between the failure and the next connect, is never handled:
\* _handle_message only runs for an event while run() waits in
\* asyncio.gather on a live connection.
C18_StaleEventsDiscarded ==
    [][\A id \in DOMAIN handled :
          (id \in DOMAIN handled' /\ handled'[id] > handled[id]) => pc = "running"]_vars

\* C19: the steps of run() from the transport error to the start of the
\* two loops (the sleep, the connect, the discovery, and their failures)
\* leave value_cache, calculated_energy and the last published values as
\* they were.
C19_ReconnectKeepsState ==
    [][(pc \in {"backoff", "connecting", "discovery"} /\ pc' # pc) =>
            /\ value_cache' = value_cache
            /\ calculated_energy' = calculated_energy
            /\ lastPub' = lastPub]_vars

\* The loops of a second connection run with the cache and the energy of
\* the first connection in place.
C19_Witness ==
    /\ pc = "running"
    /\ listeners = 2
    /\ TotalOf(calculated_energy, "ac_input_energy") > 0
    /\ Has(value_cache, "total_battery_percent")

\* The fields _handle_message looks at.
Recognized ==
    {message_parsers[i][1] : i \in 1..Len(message_parsers)}
        \cup {energy_counters[i][1] : i \in 1..Len(energy_counters)}
        \cup {"pack_battery_percent", "cell_voltages", "pack_num"}

\* C20: after every event the telemetry loop and run() are still running;
\* an event of unrecognized fields only gives no call of _update_value; and
\* pack details are published only for an event that carries
\* pack_battery_percent, cell_voltages and pack_num together.
C20_SurvivesEveryShape ==
    /\ msgLoop = "running"
    /\ pc = "running"
    /\ DOMAIN last.msg.parsed \cap Recognized = {} => calls = <<>>
    /\ \A i \in 1..Len(calls) :
          calls[i].key \in {PackKey(n) : n \in 0..2} =>
              {"pack_battery_percent", "cell_voltages", "pack_num"} \subseteq DOMAIN last.msg.parsed

\* C21: whenever handle_message is registered on the bus, an event the bus
\* delivers is put on the queue and handle_message returns, whatever the
\* number of events the telemetry loop has not taken yet and whatever
\* state the loops are in (within the events and the queue length of the
\* model).
C21_ListenerNeverBlocks ==
    (/\ listeners > 0
     /\ Cardinality(DOMAIN handled) < MaxDelivered
     /\ Len(message_queue) + listeners <= MaxQueue) => ENABLED Deliver

\* With an event waiting that the running telemetry loop has not taken,
\* the next event is put on the queue.
C21_Witness ==
    /\ listeners > 0
    /\ msgLoop = "running"
    /\ Len(message_queue) >= 1
    /\ Cardinality(DOMAIN handled) < MaxDelivered
    /\ Len(message_queue) + listeners <= MaxQueue

====
